---- MODULE Spec2Model ----
(***************************************************************************)
(* Tournament ("battle") state machine of the Discord bot:                 *)
(*   discord-bot/src/logic/BattleManager.ts  (BattleManager)               *)
(*   discord-bot/src/commands/battle.ts      (lobby registry and commands) *)
(*                                                                         *)
(* A BattleManager is a record; the lobby registry is a heap of Lobby      *)
(* records plus the activeLobbies / activeBattles maps of one channel.     *)
(* Every await of a handler after which shared state is read again is a    *)
(* point where other handlers may run, so such handlers are split there.   *)
(***************************************************************************)
EXTENDS Integers, Sequences, FiniteSets, Bags, TLC

\* ------------------------------------------------------------------ bounds
\* Largest contestant count of the tournaments into which external failures
\* are injected (every count from 2 up, the odd ones included: a lobby can
\* hand an odd number of contestants to a tournament).
MaxContestants == 3
\* Largest contestant count of the tournaments run without failures; these
\* are started with the counts /battle start admits.
MaxLegalContestants == 6
\* External failures (a rejected channel.send, a failed or empty generation)
\* injected into one tournament.
MaxFaults == 1
\* External failures injected into a tournament of the whole-system
\* specification, and the largest tournament whose rounds it runs (the rounds
\* of larger ones are those of SpecBattle).
MaxSystemFaults == 0
MaxArena == 2
\* Users of the channel, Lobby and BattleManager objects ever created,
\* command handlers suspended at an await at the same time, and the largest
\* count given to /battle fill_bots.
MaxUsers == 2
MaxHosts == 1
MaxLobbies == 1
MaxBattles == 2
MaxCalls == 2
MaxBotCount == 3
\* Holdings of the wallets whose assets vary from holding to holding, and
\* single-unit holdings of the wallets of alike assets (three batches, the
\* last one short).
MaxHoldings == 2
MaxBatchHoldings == 7

\* ------------------------------------------------------- program constants
MinPlayers == 2
MaxPlayersLimit == 24
validGangCounts == {4, 8, 16}

VARIABLES
    battles,            \* heap of BattleManager objects, in creation order
    lobbies,            \* heap of Lobby objects, in creation order
    activeLobbies,      \* activeLobbies.get(channelId): an index of lobbies, or NoLobby
    activeBattles,      \* activeBattles.get(channelId): an index of battles, or NoBattle
    pendingLobbySetup,  \* pendingLobbySetup: user -> PendingSetup, or NoSetup
    calls,              \* bag of the handlers suspended at an await
    rejection,          \* the reply of a command that was turned away: [cmd, user, msg]
    verifier            \* one call of verifyWalletAndGetNFTs: its locals and position

vars == <<battles, lobbies, activeLobbies, activeBattles, pendingLobbySetup, calls, rejection, verifier>>

registry == <<lobbies, activeLobbies, activeBattles, pendingLobbySetup, calls, rejection, verifier>>

\* The bracket rule of /battle start for a lobby of n contestants.
LegalCount(genre, n) ==
    /\ n >= MinPlayers
    /\ IF genre = "GANG_MODE"
       THEN n \in validGangCounts
       ELSE ~(n < MinPlayers \/ n > MaxPlayersLimit \/ n % 2 # 0)

\* ----------------------------------------------------------- BattleManager
NoPlayer == 0

\* narrative fallbacks of generateActionSequence
NarrativeDefault == "The fighters clash!"
NarrativeEmpty == "The battle rages on!"
NarrativeGenerated == "generated narrative"
ImageData == "data:image/png;base64"
NoImage == ""

\* new BattleManager(lobbyId, channel, settings): the state the constructor
\* leaves. `order` is the insertion order of the players Map. The fields
\* after matchQueue are bookkeeping of the control flow: the length of the
\* lobby list the tournament was built from, whether startBattle awaits its
\* opening message, the processRound invocations scheduled, whether an
\* exception escaped, the pairing handled last, the brackets generated so
\* far, the failures injected and allowed, and what endBattle posted.
BattleManager(genre, budget) ==
    [ settings    |-> [genre |-> genre],
      order       |-> <<>>,
      players     |-> <<>>,
      round       |-> 0,
      history     |-> <<>>,
      status      |-> "WAITING",
      matchQueue  |-> <<>>,
      contestants |-> 0,
      opening     |-> FALSE,
      pending     |-> 0,
      threw       |-> FALSE,
      last        |-> [p1 |-> NoPlayer, p2 |-> NoPlayer, path |-> "none"],
      brackets    |-> <<>>,
      faults      |-> 0,
      budget      |-> budget,
      report      |-> "",
      finale      |-> "" ]

\* addPlayer: players.set(player.id, {...playerData, status: 'ALIVE', roundWins: 0}).
\* Map.set on an id already present replaces the value and keeps its position.
addPlayer(bt, id) ==
    LET fresh == [status |-> "ALIVE", roundWins |-> 0] IN
    IF id \in DOMAIN bt.players
    THEN [bt EXCEPT !.players[id] = fresh]
    ELSE [bt EXCEPT !.order = Append(@, id),
                    !.players = [p \in (DOMAIN @) \cup {id} |->
                                    IF p = id THEN fresh ELSE @[p]]]

RECURSIVE addPlayers(_, _)
\* lobby.players.forEach(p => battle.addPlayer(p))
addPlayers(bt, ids) ==
    IF ids = <<>> THEN bt ELSE addPlayers(addPlayer(bt, Head(ids)), Tail(ids))

\* The players Map read without the ALIVE filter.
EveryPlayer(bt) == bt.order

\* Array.from(this.players.values()).filter(p => p.status === 'ALIVE')
AlivePlayers(bt) ==
    SelectSeq(bt.order, LAMBDA p : bt.players[p].status = "ALIVE")

Swap(s, i, j) ==
    [s EXCEPT ![i] = s[j], ![j] = s[i]]

\* The values Math.floor(Math.random() * (i + 1)) can take at each step of
\* the shuffle loop of an array of k elements: js[i] in 1..i (1-based).
ShuffleChoices(k) ==
    { js \in [2..k -> 1..k] : \A i \in 2..k : js[i] <= i }

RECURSIVE ShuffleFrom(_, _, _)
\* for (i = length - 1; i > 0; i--) swap(alivePlayers[i], alivePlayers[j])
ShuffleFrom(s, i, js) ==
    IF i < 2 THEN s ELSE ShuffleFrom(Swap(s, i, js[i]), i - 1, js)

Shuffle(s, js) == ShuffleFrom(s, Len(s), js)

\* The pairing loop advancing by one instead of two: neighbours overlap.
PairUpStride(s, i) ==
    [ j \in 1..(IF Len(s) > i THEN Len(s) - i ELSE 0) |-> [p1 |-> s[i + j - 1], p2 |-> s[i + j]] ]

RECURSIVE PairUp(_, _)
\* for (i = 0; i < length; i += 2) if (i + 1 < length) push({p1: a[i], p2: a[i+1]})
PairUp(s, i) ==
    IF i > Len(s) THEN <<>>
    ELSE IF i + 1 <= Len(s)
         THEN <<[p1 |-> s[i], p2 |-> s[i + 1]]>> \o PairUp(s, i + 2)
         ELSE PairUp(s, i + 2)

\* The contestants of a queue of pairings.
Paired(q) == { q[i].p1 : i \in DOMAIN q } \cup { q[i].p2 : i \in DOMAIN q }

\* generateBracket as its comment first proposes: with an odd number the last
\* contestant is pushed as a "bye", a pairing with p2 the same as p1.
generateBracketForged(bt, js) ==
    LET alivePlayers == Shuffle(AlivePlayers(bt), js)
        pairs == PairUp(alivePlayers, 1)
        queue == IF Len(alivePlayers) % 2 = 1
                 THEN Append(pairs, [p1 |-> alivePlayers[Len(alivePlayers)],
                                     p2 |-> alivePlayers[Len(alivePlayers)]])
                 ELSE pairs
    IN [bt EXCEPT !.matchQueue = queue,
                  !.brackets = Append(@, [alive |-> Len(alivePlayers),
                                          pairings |-> Len(queue),
                                          disjoint |-> Cardinality(Paired(queue)) = 2 * Len(queue),
                                          left |-> { alivePlayers[i] : i \in DOMAIN alivePlayers }
                                                     \ Paired(queue)])]

\* generateBracket: filter ALIVE, shuffle, pair up consecutively. The entry
\* appended to `brackets` records what was generated: the number of ALIVE
\* contestants, the number of pairings, whether the pairings are pairwise
\* disjoint with p1 # p2, and the contestants left out of them.
generateBracket(bt, js) ==
    LET alivePlayers == Shuffle(AlivePlayers(bt), js)
        queue == PairUp(alivePlayers, 1)
    IN [bt EXCEPT !.matchQueue = queue,
                  !.brackets = Append(@, [alive |-> Len(alivePlayers),
                                          pairings |-> Len(queue),
                                          disjoint |-> Cardinality(Paired(queue)) = 2 * Len(queue),
                                          left |-> { alivePlayers[i] : i \in DOMAIN alivePlayers }
                                                     \ Paired(queue)])]

\* One external failure was consumed.
Fault(bt) == [bt EXCEPT !.faults = @ + 1]

\* endBattle discarding the match history when the tournament completes.
endBattleClearing(bt, winner, in) ==
    [bt EXCEPT !.status = "COMPLETED", !.history = <<>>,
               !.report = IF winner # NoPlayer THEN "champion" ELSE "no winner"]

\* endBattle handing over to one more processRound invocation.
endBattleRescheduling(bt, winner, in) ==
    [bt EXCEPT !.status = "COMPLETED", !.pending = @ + 1,
               !.report = IF winner # NoPlayer THEN "champion" ELSE "no winner"]

\* endBattle posting nothing when there is no winner.
endBattleSilent(bt, winner, in) ==
    [bt EXCEPT !.status = "COMPLETED",
               !.report = IF winner # NoPlayer THEN "champion" ELSE ""]

\* endBattle(winner?): status = COMPLETED first; with a winner the champion
\* announcement (outside the try), then the victory package in a try whose
\* catch posts a notice; without a winner the "no winner" message.
endBattle(bt, winner, in) ==
    LET b0 == [bt EXCEPT !.status = "COMPLETED"] IN
    IF winner # NoPlayer
    THEN IF ("failEnd" \in in.faults)
         THEN [Fault(b0) EXCEPT !.threw = TRUE]
         ELSE LET b1 == [b0 EXCEPT !.report = "champion"] IN
              IF ("failFinale" \in in.faults)
              THEN IF ("failNotice" \in in.faults)
                   THEN [Fault(Fault(b1)) EXCEPT !.threw = TRUE, !.finale = "failed"]
                   ELSE [Fault(b1) EXCEPT !.finale = "failed"]
              ELSE [b1 EXCEPT !.finale = "package"]
    ELSE IF ("failEnd" \in in.faults)
         THEN [Fault(b0) EXCEPT !.threw = TRUE]
         ELSE [b0 EXCEPT !.report = "no winner"]

\* The catch of processRound both arming the timer and calling
\* processRound() directly: two invocations follow one skipped match.
catchRoundTwice(bt, match, in) ==
    [bt EXCEPT !.players[match.p2].status = "ELIMINATED",
               !.pending = @ + 2,
               !.last = [p1 |-> match.p1, p2 |-> match.p2, path |-> "skipped"]]

\* The catch counting the skipped match as a round.
catchRoundCounting(bt, match, in) ==
    [bt EXCEPT !.players[match.p2].status = "ELIMINATED",
               !.round = @ + 1,
               !.pending = @ + 1,
               !.last = [p1 |-> match.p1, p2 |-> match.p2, path |-> "skipped"]]

\* The catch eliminating the first contestant still ALIVE, whoever it is.
catchRoundAnyone(bt, match, in) ==
    LET alive == AlivePlayers(bt)
        victim == IF alive = <<>> THEN match.p2 ELSE alive[1]
    IN [bt EXCEPT !.players[victim].status = "ELIMINATED",
                  !.pending = @ + 1,
                  !.last = [p1 |-> match.p1, p2 |-> match.p2, path |-> "skipped"]]

\* catch (error) of processRound: post the notice, eliminate p2, call
\* processRound() again.
catchRound(bt, match, in) ==
    IF ("failNotice" \in in.faults)
    THEN [Fault(bt) EXCEPT !.threw = TRUE,
                           !.last = [p1 |-> match.p1, p2 |-> match.p2, path |-> "threw"]]
    ELSE [bt EXCEPT !.players[match.p2].status = "ELIMINATED",
                    !.pending = @ + 1,
                    !.last = [p1 |-> match.p1, p2 |-> match.p2, path |-> "skipped"]]

\* generateHeadToHead never throws: any failure leaves imageUrl "".
generateHeadToHead(in) == IF ("h2hFails" \in in.faults) THEN NoImage ELSE ImageData

\* generateActionSequence with the narrative initialised to '': a failed text
\* call leaves it empty.
generateActionSequenceBare(in) ==
    [narrative |-> IF in.faults \cap {"narrativeFails", "narrativeEmpty"} # {} THEN ""
                   ELSE NarrativeGenerated,
     imageUrl |-> IF ("imageFails" \in in.faults) THEN NoImage ELSE ImageData]

\* generateActionSequence never throws: a failed text call keeps the default
\* narrative, a reply without text gives the other placeholder, a failed image
\* call leaves imageUrl "".
generateActionSequence(in) ==
    [narrative |-> IF "narrativeFails" \in in.faults THEN NarrativeDefault
                   ELSE IF "narrativeEmpty" \in in.faults THEN NarrativeEmpty
                   ELSE NarrativeGenerated,
     imageUrl |-> IF ("imageFails" \in in.faults) THEN NoImage ELSE ImageData]

\* Failures the generation calls of one match consumed.
GenerationFaults(bt, in, withAction) ==
    LET n == (IF ("h2hFails" \in in.faults) THEN 1 ELSE 0)
             + (IF withAction /\ in.faults \cap {"narrativeFails", "narrativeEmpty"} # {} THEN 1 ELSE 0)
             + (IF withAction /\ ("imageFails" \in in.faults) THEN 1 ELSE 0)
    IN [bt EXCEPT !.faults = @ + n]

\* processRound treating a missing head-to-head image as a failure of the
\* round: the match goes to the catch.
runMatchNeedingH2H(bt, match, in) ==
    IF ("failAnnounce" \in in.faults)
    THEN [Fault(bt) EXCEPT !.threw = TRUE,
                           !.last = [p1 |-> match.p1, p2 |-> match.p2, path |-> "threw"]]
    ELSE LET headToHeadUrl == generateHeadToHead(in) IN
         IF headToHeadUrl = NoImage \/ ("failH2HSend" \in in.faults)
         THEN catchRound(Fault(GenerationFaults(bt, in, FALSE)), match, in)
         ELSE LET gen == generateActionSequence(in)
                  winner == IF in.coin THEN match.p1 ELSE match.p2
                  loser == IF winner = match.p1 THEN match.p2 ELSE match.p1
                  b1 == [GenerationFaults(bt, in, TRUE) EXCEPT
                            !.players[winner].roundWins = @ + 1,
                            !.players[loser].status = "ELIMINATED"]
              IN IF ("failResultSend" \in in.faults)
                 THEN catchRound(Fault(b1), match, in)
                 ELSE [b1 EXCEPT
                          !.history = Append(@, [roundNumber |-> bt.round,
                                                 winnerId |-> winner,
                                                 loserId |-> loser,
                                                 narrative |-> gen.narrative,
                                                 imageUrl |-> gen.imageUrl,
                                                 headToHeadUrl |-> headToHeadUrl]),
                          !.round = @ + 1,
                          !.pending = @ + 1,
                          !.last = [p1 |-> match.p1, p2 |-> match.p2, path |-> "recorded"]]

\* The body of processRound from `const { p1, p2 } = match` on.
runMatch(bt, match, in) ==
    IF ("failAnnounce" \in in.faults)
    THEN \* channel.send of the round announcement is outside the try
         [Fault(bt) EXCEPT !.threw = TRUE,
                           !.last = [p1 |-> match.p1, p2 |-> match.p2, path |-> "threw"]]
    ELSE LET headToHeadUrl == generateHeadToHead(in) IN
         IF headToHeadUrl # NoImage /\ ("failH2HSend" \in in.faults)
         THEN catchRound(Fault(GenerationFaults(bt, in, FALSE)), match, in)
         ELSE LET gen == generateActionSequence(in)
                  winner == IF in.coin THEN match.p1 ELSE match.p2
                  loser == IF winner = match.p1 THEN match.p2 ELSE match.p1
                  b1 == [GenerationFaults(bt, in, TRUE) EXCEPT
                            !.players[winner].roundWins = @ + 1,
                            !.players[loser].status = "ELIMINATED"]
              IN IF ("failResultSend" \in in.faults)
                 THEN catchRound(Fault(b1), match, in)
                 ELSE [b1 EXCEPT
                          !.history = Append(@, [roundNumber |-> bt.round,
                                                 winnerId |-> winner,
                                                 loserId |-> loser,
                                                 narrative |-> gen.narrative,
                                                 imageUrl |-> gen.imageUrl,
                                                 headToHeadUrl |-> headToHeadUrl]),
                          !.round = @ + 1,
                          !.pending = @ + 1,
                          !.last = [p1 |-> match.p1, p2 |-> match.p2, path |-> "recorded"]]

\* The safety net of processRound: an empty queue with more than one ALIVE.
safetyNet(bt, alivePlayers) ==
    IF Len(bt.matchQueue) = 0 /\ Len(alivePlayers) > 1
    THEN [bt EXCEPT !.matchQueue = Append(@, [p1 |-> alivePlayers[1], p2 |-> alivePlayers[2]])]
    ELSE bt

\* One invocation of processRound. A call of processRound in tail position
\* (setTimeout at the end of the try, the direct call at the end of the
\* catch, the call at the end of startBattle) hands over to the next
\* invocation: it is counted in `pending`.
processRound(bt, in) ==
    LET b0 == [bt EXCEPT !.pending = @ - 1]
        alivePlayers == AlivePlayers(b0)
    IN IF Len(b0.matchQueue) = 0 /\ Len(alivePlayers) = 1
       THEN endBattle(b0, alivePlayers[1], in)
       ELSE IF Len(b0.matchQueue) = 0 /\ Len(alivePlayers) = 0
       THEN endBattle(b0, NoPlayer, in)
       ELSE LET b1 == IF Len(b0.matchQueue) = 0
                      THEN safetyNet(generateBracket(b0, in.js), alivePlayers)
                      ELSE b0
            IN IF Len(b1.matchQueue) = 0
               THEN b1
               ELSE runMatch([b1 EXCEPT !.matchQueue = Tail(@)], Head(b1.matchQueue), in)

\* startBattle up to its first await: IN_PROGRESS, round 1, the opening
\* message is being sent.
startBattle(bt) ==
    [bt EXCEPT !.status = "IN_PROGRESS", !.round = 1, !.opening = TRUE]

\* startBattle after the opening message: the first bracket, then
\* processRound. A rejected send leaves the tournament as it is.
startBattleResume(bt, in) ==
    LET b0 == [bt EXCEPT !.opening = FALSE] IN
    IF "failAnnounce" \in in.faults
    THEN [Fault(b0) EXCEPT !.threw = TRUE]
    ELSE [generateBracket(b0, in.js) EXCEPT !.pending = @ + 1]

\* The external calls of one invocation that can fail: a generation that
\* fails or comes back empty, and each channel.send.
FaultKinds ==
    { "h2hFails", "narrativeFails", "narrativeEmpty", "imageFails",
      "failAnnounce", "failH2HSend", "failResultSend", "failNotice",
      "failEnd", "failFinale" }

FaultSets(n) == { S \in SUBSET FaultKinds : Cardinality(S) <= n }

\* What the environment decides during one invocation: the random numbers of
\* the shuffle (js) and of the winner (coin), and which external calls fail.
RoundInputs(bt, shuffles) ==
    [ js : shuffles, coin : BOOLEAN, faults : FaultSets(bt.budget - bt.faults) ]

\* The tournament startBattleLogic builds from a lobby list of ids.
NewBattle(genre, ids, budget) ==
    [addPlayers(BattleManager(genre, budget), ids) EXCEPT !.contestants = Len(ids)]

\* ---------------------------------------------------------- battle actions
\* battle.startBattle() is called
StartBattle(b) ==
    /\ battles[b].status = "WAITING"
    /\ battles' = [battles EXCEPT ![b] = startBattle(@)]

\* the opening message of startBattle was sent or rejected
StartBattleResume(b) ==
    /\ battles[b].opening
    /\ \E in \in RoundInputs(battles[b], ShuffleChoices(Len(AlivePlayers(battles[b])))) :
         LET nb == startBattleResume(battles[b], in) IN
         /\ nb.faults <= nb.budget
         /\ battles' = [battles EXCEPT ![b] = nb]

\* a scheduled processRound invocation runs
ProcessRound(b) ==
    /\ battles[b].pending > 0
    /\ \E in \in RoundInputs(battles[b],
                    IF Len(battles[b].matchQueue) = 0
                    THEN ShuffleChoices(Len(AlivePlayers(battles[b])))
                    ELSE {<<>>}) :
         LET nb == processRound(battles[b], in) IN
         /\ nb.faults <= nb.budget
         /\ battles' = [battles EXCEPT ![b] = nb]

\* ---------------------------------------------------- lobby registry (battle.ts)
NoLobby == 0
NoBattle == 0
NoSetup == [type |-> "", mode |-> ""]
NoReply == [cmd |-> "", user |-> 0, msg |-> ""]
NoTeam == ""

Users == 1..MaxUsers
\* the users who run the creation wizard
Hosts == 1..MaxHosts
\* The registration type the wizard is run with. WALLET has every path of the
\* other two: PFP never fails validation, UPLOAD never registers the host.
RegistrationTypes == {"WALLET"}
GameModes == {"BATTLE_ROYALE", "GANG_MODE"}
\* Values typed into the max_players field of the final modal: one the
\* mode's bracket rule admits and one it rejects.
Capacities(mode) == IF mode = "GANG_MODE" THEN {2, 4} ELSE {2, 3}

\* the replies with which a command is turned away
NoOpenLobby == "No open lobby in this channel."
AlreadyRegistered == "You are already registered!"
LobbyFull == "Lobby is full!"
NoLobbyToReset == "No active lobby to reset."
OnlyHostReset == "Only the Host can reset the lobby."
NoLobbyFound == "No lobby found."
OnlyHostStart == "Only the Host can start the battle."
NeedTwoPlayers == "Need at least 2 players to start."
GangRequires == "Gang Mode Requires 4, 8, or 16 Players!"
EvenBrackets == "Even Brackets Enforced!"
SessionExpired == "Session expired or invalid. Please start over."
InvalidGangCount == "Invalid Player Count for Gang Mode!"
InvalidCount == "Invalid Player Count!"
LobbyAlreadyActive == "A lobby is already active in this channel!"
SelectionTimedOut == "Selection timed out."

Reply(cmd, u, msg) == [cmd |-> cmd, user |-> u, msg |-> msg]

\* A handler suspended at an await: what it is, where it stands, and the
\* values its closure holds (the user, the Lobby object, the modal input).
Call(kind, pc, u, l, n, type, mode) ==
    [kind |-> kind, pc |-> pc, user |-> u, lobby |-> l,
     maxPlayers |-> n, type |-> type, mode |-> mode]

Suspend(c) == calls (+) SetToBag({c})
Resume(c) == calls (-) SetToBag({c})
Suspended == BagToSet(calls)
MaySuspend == BagCardinality(calls) < MaxCalls

\* the ids of a lobby list
Ids(players) == [i \in DOMAIN players |-> players[i].id]

\* bot_${Date.now()}_${i}: an id no user and no other bot of the list has
BotId(position) == 0 - position

\* fill_bots making room on a full lobby: the last contestant gives way to
\* the bot.
fillBotsEvicting(players, maxPlayers, count) ==
    IF count <= 0 THEN players
    ELSE IF Len(players) >= maxPlayers /\ Len(players) > 0
    THEN [players EXCEPT ![Len(players)] = [id |-> BotId(Len(players)), team |-> NoTeam]]
    ELSE Append(players, [id |-> BotId(Len(players) + 1), team |-> NoTeam])

RECURSIVE fillBots(_, _, _)
\* for (i = 0; i < count; i++) { if (players.length >= maxPlayers) break; players.push(bot) }
fillBots(players, maxPlayers, count) ==
    IF count <= 0 \/ Len(players) >= maxPlayers THEN players
    ELSE fillBots(Append(players, [id |-> BotId(Len(players) + 1), team |-> NoTeam]),
                  maxPlayers, count - 1)

\* A Lobby object that neither the channel map nor a suspended handler holds
\* is unreachable: nothing reads its contents again. Its timer stays armed.
Unreachable(lobby) ==
    [ hostId |-> 0, players |-> <<>>, maxPlayers |-> 0, status |-> lobby.status,
      settings |-> [genre |-> "", registrationType |-> ""],
      autoStartTimer |-> lobby.autoStartTimer ]

Release(ls, active, held) ==
    [ l \in DOMAIN ls |->
        IF l = active \/ \E c \in BagToSet(held) : c.lobby = l THEN ls[l] ELSE Unreachable(ls[l]) ]

\* startBattleLogic leaving the started lobby registered for the channel.
startBattleLogicKeeping(l) ==
    /\ Len(battles) < MaxBattles
    /\ lobbies' = Release([lobbies EXCEPT ![l].status = "IN_PROGRESS"], activeLobbies, calls')
    /\ battles' = Append(battles,
                         startBattle(NewBattle(lobbies[l].settings.genre,
                                               Ids(lobbies[l].players), MaxSystemFaults)))
    /\ activeBattles' = Len(battles) + 1
    /\ activeLobbies' = activeLobbies

\* startBattleLogic(channel, lobby): the lobby becomes IN_PROGRESS, a
\* BattleManager is built from its list and stored in activeBattles, the
\* channel's lobby is deleted, and startBattle runs up to its first await.
startBattleLogic(l) ==
    /\ Len(battles) < MaxBattles
    /\ lobbies' = Release([lobbies EXCEPT ![l].status = "IN_PROGRESS"], NoLobby, calls')
    /\ battles' = Append(battles,
                         startBattle(NewBattle(lobbies[l].settings.genre,
                                               Ids(lobbies[l].players), MaxSystemFaults)))
    /\ activeBattles' = Len(battles) + 1
    /\ activeLobbies' = NoLobby

\* wizard steps 1 to 5 (battle_create_type .. battle_create_venue): they
\* leave the user's PendingSetup with type, mode and venue chosen.
CreateWizard(u, type, mode) ==
    /\ pendingLobbySetup' = [pendingLobbySetup EXCEPT ![u] = [type |-> type, mode |-> mode]]
    /\ UNCHANGED <<battles, lobbies, activeLobbies, activeBattles, calls, rejection>>

\* the bracket rule of the final modal for the typed capacity
ValidCapacity(mode, maxPlayers) ==
    IF mode = "GANG_MODE"
    THEN maxPlayers \in validGangCounts
    ELSE ~(maxPlayers < MinPlayers \/ maxPlayers > MaxPlayersLimit \/ maxPlayers % 2 # 0)

\* battle_create_final up to deferReply
CreateFinal(u, maxPlayers) ==
    LET setup == pendingLobbySetup[u] IN
    IF setup = NoSetup
    THEN /\ rejection' = Reply("create", u, SessionExpired)
         /\ UNCHANGED <<battles, lobbies, activeLobbies, activeBattles, pendingLobbySetup, calls>>
    ELSE IF ~ValidCapacity(setup.mode, maxPlayers)
    THEN /\ rejection' = Reply("create", u, IF setup.mode = "GANG_MODE"
                                            THEN InvalidGangCount ELSE InvalidCount)
         /\ UNCHANGED <<battles, lobbies, activeLobbies, activeBattles, pendingLobbySetup, calls>>
    ELSE IF activeLobbies # NoLobby
    THEN /\ rejection' = Reply("create", u, LobbyAlreadyActive)
         /\ UNCHANGED <<battles, lobbies, activeLobbies, activeBattles, pendingLobbySetup, calls>>
    ELSE /\ MaySuspend
         /\ calls' = Suspend(Call("create", "defer", u, NoLobby, maxPlayers, setup.type, setup.mode))
         /\ UNCHANGED <<battles, lobbies, activeLobbies, activeBattles, pendingLobbySetup, rejection>>

\* The outcomes of the host's auto-registration: none for UPLOAD; for PFP the
\* validation cannot fail (team A is tried first in gang mode); for WALLET it
\* registers the host, under team A or B in gang mode, or fails.
HostOutcomes(type, mode) ==
    IF type = "UPLOAD" THEN {"none"}
    ELSE IF mode = "GANG_MODE"
         THEN IF type = "PFP" THEN {"A"} ELSE {"A", "B", "none"}
         ELSE IF type = "PFP" THEN {"host"} ELSE {"host", "none"}

\* battle_create_final after deferReply: the host is registered or not, the
\* Lobby is stored under the channel and the setup deleted; the catch
\* (a failed updateUser before, a failed editReply after) deletes the
\* channel's lobby.
CreateCommitWithin(c, host, err, limit) ==
    /\ c \in Suspended /\ c.kind = "create"
    /\ host \in HostOutcomes(c.type, c.mode)
    /\ err = "before" => c.type = "WALLET"
    /\ calls' = Resume(c)
    /\ IF err = "before"
       THEN /\ activeLobbies' = NoLobby
            /\ lobbies' = Release(lobbies, NoLobby, calls')
            /\ UNCHANGED <<battles, activeBattles, pendingLobbySetup>>
       ELSE /\ Len(lobbies) < limit
            /\ activeLobbies' = IF err = "after" THEN NoLobby ELSE Len(lobbies) + 1
            /\ lobbies' = Release(Append(lobbies,
                  [ hostId |-> c.user,
                    players |-> IF host = "none" THEN <<>>
                                ELSE <<[id |-> c.user,
                                        team |-> IF host = "host" THEN NoTeam ELSE host]>>,
                    maxPlayers |-> c.maxPlayers,
                    status |-> "OPEN",
                    settings |-> [genre |-> c.mode, registrationType |-> c.type],
                    autoStartTimer |-> FALSE ]), activeLobbies', calls')
            /\ pendingLobbySetup' = [pendingLobbySetup EXCEPT ![c.user] = NoSetup]
            /\ UNCHANGED <<battles, activeBattles>>
    /\ UNCHANGED rejection

\* battle_create_final after deferReply, with at most MaxLobbies Lobby
\* objects created in a run
CreateCommit(c, host, err) == CreateCommitWithin(c, host, err, MaxLobbies)

\* /battle join up to deferReply: the lobby, duplicate and capacity checks
JoinCheck(u) ==
    LET l == activeLobbies IN
    IF l = NoLobby \/ (l # NoLobby /\ lobbies[l].status # "OPEN")
    THEN /\ rejection' = Reply("join", u, NoOpenLobby)
         /\ UNCHANGED <<battles, lobbies, activeLobbies, activeBattles, pendingLobbySetup, calls>>
    ELSE IF \E i \in DOMAIN lobbies[l].players : lobbies[l].players[i].id = u
    THEN /\ rejection' = Reply("join", u, AlreadyRegistered)
         /\ UNCHANGED <<battles, lobbies, activeLobbies, activeBattles, pendingLobbySetup, calls>>
    ELSE IF Len(lobbies[l].players) >= lobbies[l].maxPlayers
    THEN /\ rejection' = Reply("join", u, LobbyFull)
         /\ UNCHANGED <<battles, lobbies, activeLobbies, activeBattles, pendingLobbySetup, calls>>
    ELSE /\ MaySuspend
         /\ calls' = Suspend(Call("join", "validate", u, l, 0, "", ""))
         /\ UNCHANGED <<battles, lobbies, activeLobbies, activeBattles, pendingLobbySetup, rejection>>

\* What team selection and validateAndGetPlayerData can end in for a lobby.
JoinOutcomes(lobby) ==
    {"ok"}
    \cup (IF lobby.settings.registrationType = "PFP" THEN {} ELSE {"invalid"})
    \cup (IF lobby.settings.genre = "GANG_MODE" \/ lobby.settings.registrationType = "WALLET"
          THEN {"timeout"} ELSE {})

\* /battle join after deferReply: team selection, validation and
\* lobby.players.push(player) on the Lobby object the handler holds. A choice
\* (team or collection) not made within the 60 s ends the handler with the
\* reply "Selection timed out."; a failed validation ends it with "Failed to
\* join".
JoinValidate(c, outcome, team) ==
    /\ c \in Suspended /\ c.kind = "join" /\ c.pc = "validate"
    /\ outcome \in JoinOutcomes(lobbies[c.lobby])
    /\ team \in IF lobbies[c.lobby].settings.genre = "GANG_MODE" THEN {"A", "B"} ELSE {NoTeam}
    /\ IF outcome = "ok"
       THEN /\ lobbies' = [lobbies EXCEPT ![c.lobby].players =
                              Append(@, [id |-> c.user, team |-> team])]
            /\ calls' = Suspend([c EXCEPT !.pc = "pushed"]) (-) SetToBag({c})
       ELSE /\ calls' = Resume(c)
            /\ lobbies' = Release(lobbies, activeLobbies, calls')
    /\ rejection' = IF outcome = "timeout"
                    THEN Reply("join", c.user, SelectionTimedOut) ELSE rejection
    /\ UNCHANGED <<battles, activeLobbies, activeBattles, pendingLobbySetup>>

\* /battle join after the push: the lobby embed is posted, then the
\* lobby-full test
JoinPushed(c, editFails) ==
    /\ c \in Suspended /\ c.kind = "join" /\ c.pc = "pushed"
    /\ IF editFails
       THEN calls' = Resume(c)
       ELSE IF Len(lobbies[c.lobby].players) = lobbies[c.lobby].maxPlayers
       THEN calls' = Suspend([c EXCEPT !.pc = "full"]) (-) SetToBag({c})
       ELSE calls' = Resume(c)
    /\ lobbies' = Release(lobbies, activeLobbies, calls')
    /\ UNCHANGED <<battles, activeLobbies, activeBattles, pendingLobbySetup, rejection>>

\* /battle join on a full lobby: host fetched, "Lobby Full!" posted, the old
\* timer cleared and the auto-start timer armed
JoinFull(c, followUpFails) ==
    /\ c \in Suspended /\ c.kind = "join" /\ c.pc = "full"
    /\ calls' = Resume(c)
    /\ lobbies' = Release(IF followUpFails THEN lobbies
                           ELSE [lobbies EXCEPT ![c.lobby].autoStartTimer = TRUE],
                           activeLobbies, calls')
    /\ UNCHANGED <<battles, activeLobbies, activeBattles, pendingLobbySetup, rejection>>

\* the auto-start timer armed through lobby l fires: the channel's current
\* lobby, if OPEN, is the one to start once the channel is fetched
AutoStartTimer(l) ==
    /\ lobbies[l].autoStartTimer
    /\ lobbies' = [lobbies EXCEPT ![l].autoStartTimer = FALSE]
    /\ IF activeLobbies # NoLobby /\ lobbies[activeLobbies].status = "OPEN"
       THEN /\ MaySuspend
            /\ calls' = Suspend(Call("autostart", "fetch", 0, activeLobbies, 0, "", ""))
       ELSE UNCHANGED calls
    /\ UNCHANGED <<battles, activeLobbies, activeBattles, pendingLobbySetup, rejection>>

\* the auto-start callback after channels.fetch
AutoStart(c, fetched) ==
    /\ c \in Suspended /\ c.kind = "autostart"
    /\ calls' = Resume(c)
    /\ IF fetched = "channel"
       THEN startBattleLogic(c.lobby)
       ELSE /\ activeLobbies' = IF fetched = "none" THEN NoLobby ELSE activeLobbies
            /\ lobbies' = Release(lobbies, activeLobbies', calls')
            /\ UNCHANGED <<battles, activeBattles>>
    /\ UNCHANGED <<pendingLobbySetup, rejection>>

\* /battle fill_bots count
FillBots(u, count) ==
    LET l == activeLobbies IN
    IF l = NoLobby \/ (l # NoLobby /\ lobbies[l].status # "OPEN")
    THEN /\ rejection' = Reply("fill_bots", u, NoOpenLobby)
         /\ UNCHANGED <<battles, lobbies, activeLobbies, activeBattles, pendingLobbySetup, calls>>
    ELSE /\ lobbies' = [lobbies EXCEPT ![l].players = fillBots(@, lobbies[l].maxPlayers, count)]
         /\ UNCHANGED <<battles, activeLobbies, activeBattles, pendingLobbySetup, calls, rejection>>

\* The validation of /battle reset without the test of the user.
resetRejectionOpen(u, lobby) == ""

\* The validation of /battle reset of the channel's lobby: the message it is
\* rejected with, or "" when the lobby is deleted.
resetRejection(u, lobby) ==
    IF u # lobby.hostId THEN OnlyHostReset ELSE ""

\* /battle reset
Reset(u) ==
    LET l == activeLobbies IN
    /\ IF l = NoLobby
       THEN rejection' = Reply("reset", u, NoLobbyToReset) /\ UNCHANGED activeLobbies
       ELSE IF resetRejection(u, lobbies[l]) # ""
       THEN rejection' = Reply("reset", u, resetRejection(u, lobbies[l])) /\ UNCHANGED activeLobbies
       ELSE activeLobbies' = NoLobby /\ UNCHANGED rejection
    /\ lobbies' = Release(lobbies, activeLobbies', calls)
    /\ UNCHANGED <<battles, activeBattles, pendingLobbySetup, calls>>

\* The validation of /battle start with the team-mode lobby held to the
\* even-bracket rule of the other mode.
startRejectionEven(u, lobby) ==
    IF u # lobby.hostId THEN OnlyHostStart
    ELSE IF Len(lobby.players) < MinPlayers THEN NeedTwoPlayers
    ELSE IF Len(lobby.players) < MinPlayers \/ Len(lobby.players) > MaxPlayersLimit
            \/ Len(lobby.players) % 2 # 0
         THEN (IF lobby.settings.genre = "GANG_MODE" THEN GangRequires ELSE EvenBrackets)
         ELSE ""

\* The validation of /battle start: the message it rejects the lobby with,
\* or "" when the lobby may start.
startRejection(u, lobby) ==
    IF u # lobby.hostId THEN OnlyHostStart
    ELSE IF Len(lobby.players) < MinPlayers THEN NeedTwoPlayers
    ELSE IF lobby.settings.genre = "GANG_MODE"
         THEN IF Len(lobby.players) \notin validGangCounts THEN GangRequires ELSE ""
         ELSE IF Len(lobby.players) < MinPlayers \/ Len(lobby.players) > MaxPlayersLimit
                 \/ Len(lobby.players) % 2 # 0
              THEN EvenBrackets ELSE ""

\* /battle start up to its reply: validation, then the lobby's timers are
\* cleared and "Battle Started Manually!" is sent
Start(u, replyFails) ==
    LET l == activeLobbies IN
    IF l = NoLobby
    THEN /\ rejection' = Reply("start", u, NoLobbyFound)
         /\ UNCHANGED <<battles, lobbies, activeLobbies, activeBattles, pendingLobbySetup, calls>>
    ELSE IF startRejection(u, lobbies[l]) # ""
    THEN /\ rejection' = Reply("start", u, startRejection(u, lobbies[l]))
         /\ UNCHANGED <<battles, lobbies, activeLobbies, activeBattles, pendingLobbySetup, calls>>
    ELSE /\ lobbies' = [lobbies EXCEPT ![l].autoStartTimer = FALSE]
         /\ IF replyFails
            THEN UNCHANGED calls
            ELSE /\ MaySuspend
                 /\ calls' = Suspend(Call("start", "reply", u, l, 0, "", ""))
         /\ UNCHANGED <<battles, activeLobbies, activeBattles, pendingLobbySetup, rejection>>

\* /battle start after its reply: startBattleLogic on the Lobby it holds
StartCommit(c) ==
    /\ c \in Suspended /\ c.kind = "start"
    /\ calls' = Resume(c)
    /\ startBattleLogic(c.lobby)
    /\ UNCHANGED <<pendingLobbySetup, rejection>>

\* ------------------------------------------- wallet verifier (SolanaVerifier.ts)
BATCH_SIZE == 3

\* A configuration value of the db is the sequence of its comma-separated
\* items; null and '' are falsy.
NoConfig == <<>>
NoTarget == ""
NoCollection == [key |-> "", verified |-> FALSE]
EmptyMap == [id \in {} |-> ""]

\* strings that match /^[1-9A-HJ-NP-Za-km-z]{32,44}$/
PublicKeys == {"KeyA", "KeyZ", "CreatorA", "CreatorB"}

\* String.prototype.trim on the items used
Trim(item) == IF item \in {"", " "} THEN "" ELSE item

\* slug.replace(/^\//, '').trim()
CleanSlug(slug) == IF slug = "/" THEN "" ELSE Trim(slug)

\* Map.prototype.set
MapSet(map, key, value) ==
    [k \in (DOMAIN map) \cup {key} |-> IF k = key THEN value ELSE map[k]]

RECURSIVE MapSetAll(_, _, _)
\* resolved.forEach(id => validCollections.set(id, label))
MapSetAll(map, keys, value) ==
    IF keys = <<>> THEN map ELSE MapSetAll(MapSet(map, Head(keys), value), Tail(keys), value)

NoAsset == [collection |-> NoCollection, creators |-> <<>>]

\* On-chain metadata of an asset: the collection option and the creators.
LinkedAsset ==
    [collection |-> [key |-> "KeyA", verified |-> TRUE], creators |-> <<>>]
FirstCreatorAsset ==
    [collection |-> [key |-> "KeyA", verified |-> TRUE],
     creators |-> <<[address |-> "CreatorA", verified |-> TRUE]>>]
CreatorAsset ==
    [collection |-> NoCollection,
     creators |-> <<[address |-> "CreatorB", verified |-> FALSE],
                    [address |-> "CreatorA", verified |-> TRUE]>>]
UnverifiedAsset ==
    [collection |-> [key |-> "KeyA", verified |-> FALSE],
     creators |-> <<[address |-> "CreatorA", verified |-> FALSE]>>]
StrangerAsset ==
    [collection |-> [key |-> "KeyZ", verified |-> TRUE],
     creators |-> <<[address |-> "CreatorB", verified |-> TRUE]>>]

\* What the lookup index and the chain answer to one resolution of a slug.
SlugAnswers ==
    { [kind |-> "httpError", asset |-> LinkedAsset],
      [kind |-> "asset", asset |-> LinkedAsset],
      [kind |-> "asset", asset |-> FirstCreatorAsset] }

\* resolveCollectionFromSlug: [] for an empty slug, a failed lookup, no item,
\* no mint or any exception; else the verified collection key and the first
\* creator if verified.
resolveCollectionFromSlug(slug, answer) ==
    IF CleanSlug(slug) = "" THEN <<>>
    ELSE IF answer.kind # "asset" THEN <<>>
    ELSE (IF answer.asset.collection # NoCollection /\ answer.asset.collection.verified
          THEN <<answer.asset.collection.key>> ELSE <<>>)
         \o (IF Len(answer.asset.creators) > 0 /\ answer.asset.creators[1].verified
             THEN <<answer.asset.creators[1].address>> ELSE <<>>)

\* Whether processConfigItem calls resolveCollectionFromSlug for the item.
Resolves(item, targetCollectionGroup) ==
    /\ Trim(item) # ""
    /\ ~(targetCollectionGroup # NoTarget /\ item # targetCollectionGroup)
    /\ Trim(item) \notin PublicKeys

\* processConfigItem without the test of the label against the target.
processConfigItemUnfiltered(validCollections, item, targetCollectionGroup, answer) ==
    LET s == Trim(item) IN
    IF s = "" THEN validCollections
    ELSE IF s \in PublicKeys THEN MapSet(validCollections, s, item)
    ELSE MapSetAll(validCollections, resolveCollectionFromSlug(s, answer), item)

\* processConfigItem(item, label) with label = item
processConfigItem(validCollections, item, targetCollectionGroup, answer) ==
    LET s == Trim(item) IN
    IF s = "" THEN validCollections
    ELSE IF targetCollectionGroup # NoTarget /\ item # targetCollectionGroup THEN validCollections
    ELSE IF s \in PublicKeys THEN MapSet(validCollections, s, item)
    ELSE MapSetAll(validCollections, resolveCollectionFromSlug(s, answer), item)

RECURSIVE Pow10(_)
Pow10(d) == IF d = 0 THEN 1 ELSE 10 * Pow10(d - 1)

\* tokenAmount.uiAmount: amount / 10^decimals, -1 standing for a fraction
UiAmount(t) ==
    IF t.amount % Pow10(t.decimals) = 0 THEN t.amount \div Pow10(t.decimals) ELSE 0 - 1

\* The filter with the decimals test left out.
SingleUnitByAmount(t) == UiAmount(t) = 1

\* amount.uiAmount === 1 && amount.decimals === 0
SingleUnit(t) == UiAmount(t) = 1 /\ t.decimals = 0

\* tokenAccounts.value.filter(...).map(t => mint): the mint of a holding is
\* its position in the wallet
NftMints(tokenAccounts) ==
    SelectSeq([k \in DOMAIN tokenAccounts |-> k], LAMBDA k : SingleUnit(tokenAccounts[k]))

\* A batch reaching one element into the next one.
BatchOverlapping(nftMints, i) ==
    { nftMints[k] : k \in { j \in DOMAIN nftMints : j > i /\ j <= i + BATCH_SIZE + 1 } }

\* nftMints.slice(i, i + BATCH_SIZE)
Batch(nftMints, i) ==
    { nftMints[k] : k \in { j \in DOMAIN nftMints : j > i /\ j <= i + BATCH_SIZE } }

\* The collection check of one asset: the label it matched under, or
\* NoTarget when it did not match.
MatchedGroup(asset, validCollections, allowAny) ==
    IF allowAny THEN "Any"
    ELSE IF /\ asset.collection # NoCollection
            /\ asset.collection.verified
            /\ asset.collection.key \in DOMAIN validCollections
         THEN validCollections[asset.collection.key]
    ELSE LET hits == { k \in DOMAIN asset.creators :
                          /\ asset.creators[k].verified
                          /\ asset.creators[k].address \in DOMAIN validCollections }
         IN IF hits = {} THEN NoTarget
            ELSE validCollections[asset.creators[CHOOSE k \in hits : \A h \in hits : k <= h].address]

\* verifyWalletAndGetNFTs(walletAddress, targetCollectionGroup) after the
\* three getConfig calls: the items of server_collection, then those of
\* partner_collections if partners are enabled, are still to be processed.
\* `resolutions`, `fetched` and `slept` are bookkeeping: the slugs resolved
\* with what they resolved to, the mints whose metadata was fetched, and the
\* inter-batch delays taken; `variety` says whether the answers of the chain
\* vary between holdings.
NoNft == [mint |-> 0, collectionGroup |-> NoTarget, asset |-> NoAsset]
NoValidation == [kind |-> "none", msg |-> "", groups |-> {}, nft |-> NoNft]

Verification(serverCollection, partnerCollections, enablePartners, targetCollectionGroup) ==
    [ pc                    |-> "config",
      targetCollectionGroup |-> targetCollectionGroup,
      configured            |-> serverCollection
                                \o (IF enablePartners THEN partnerCollections ELSE <<>>),
      items                 |-> serverCollection
                                \o (IF enablePartners THEN partnerCollections ELSE <<>>),
      validCollections      |-> EmptyMap,
      allowAny              |-> FALSE,
      tokenAccounts         |-> <<>>,
      nftMints              |-> <<>>,
      validNFTs             |-> <<>>,
      i                     |-> 0,
      inFlight              |-> {},
      result                |-> "pending",
      resolutions           |-> <<>>,
      fetched               |-> <<>>,
      slept                 |-> 0,
      variety               |-> TRUE,
      enablePartners        |-> enablePartners,
      validation            |-> NoValidation ]

\* No verification is running.
NoVerification ==
    [Verification(NoConfig, NoConfig, FALSE, NoTarget) EXCEPT !.pc = "idle"]

\* the holdings a wallet is made of: one unit of an indivisible token, two
\* units of one, and ten base units of a token with one decimal
Nft == [amount |-> 1, decimals |-> 0]
Pair == [amount |-> 2, decimals |-> 0]
Fraction == [amount |-> 10, decimals |-> 1]

RECURSIVE Wallets(_)
\* the wallets of up to n holdings
Wallets(n) ==
    IF n = 0 THEN {<<>>}
    ELSE Wallets(n - 1)
         \cup { Append(w, t) : w \in { v \in Wallets(n - 1) : Len(v) = n - 1 },
                               t \in {Nft, Pair, Fraction} }

\* What getParsedTokenAccountsByOwner answers: an exception (also thrown by
\* new PublicKey for a malformed address), a small wallet whose assets vary,
\* or a wallet of one divisible holding and n alike single-unit holdings.
WalletAnswers ==
    { [kind |-> "throws", accounts |-> <<>>, variety |-> TRUE] }
    \cup { [kind |-> "accounts", accounts |-> w, variety |-> TRUE] : w \in Wallets(MaxHoldings) }
    \cup { [kind |-> "accounts", accounts |-> <<Fraction>> \o [k \in 1..n |-> Nft], variety |-> FALSE] :
             n \in (MaxHoldings + 1)..MaxBatchHoldings }

\* What the fetches of one holding answer: fetchDigitalAsset throws, or the
\* asset's metadata, after which the fetch of its JSON succeeds or throws.
FetchOutcomes(variety) ==
    IF variety
    THEN { [kind |-> "throws", asset |-> LinkedAsset, jsonOk |-> FALSE] }
         \cup { [kind |-> "asset", asset |-> a, jsonOk |-> ok] :
                  a \in {LinkedAsset, CreatorAsset, UnverifiedAsset, StrangerAsset},
                  ok \in BOOLEAN }
    ELSE { [kind |-> "asset", asset |-> LinkedAsset, jsonOk |-> TRUE] }

\* --------------------------------------------------------- verifier actions
\* one iteration of the two loops over the configured items
ProcessConfigItem(answer) ==
    /\ verifier.pc = "config"
    /\ verifier.items # <<>>
    /\ LET item == Head(verifier.items)
           target == verifier.targetCollectionGroup
       IN verifier' =
            [verifier EXCEPT
               !.items = Tail(@),
               !.validCollections = processConfigItem(@, item, target, answer),
               !.resolutions =
                   IF Resolves(item, target)
                   THEN Append(@, [slug |-> Trim(item),
                                   ids |-> resolveCollectionFromSlug(Trim(item), answer)])
                   ELSE @]

\* allowAny is computed, the token accounts are fetched and filtered; an
\* exception is caught by the outer catch, which returns []
TokenAccounts(answer) ==
    /\ verifier.pc = "config"
    /\ verifier.items = <<>>
    /\ LET allowAny == DOMAIN verifier.validCollections = {}
                       /\ verifier.targetCollectionGroup = NoTarget
           nftMints == NftMints(answer.accounts)
       IN verifier' =
            IF answer.kind = "throws"
            THEN [verifier EXCEPT !.allowAny = allowAny, !.pc = "done", !.result = "caught"]
            ELSE [verifier EXCEPT
                    !.allowAny = allowAny,
                    !.tokenAccounts = answer.accounts,
                    !.nftMints = nftMints,
                    !.variety = answer.variety,
                    !.pc = IF Len(nftMints) = 0 THEN "done" ELSE "batch",
                    !.result = IF Len(nftMints) = 0 THEN "returned" ELSE @]

\* the loop body up to Promise.all: the fetches of one batch are started
BatchStart ==
    /\ verifier.pc = "batch"
    /\ verifier' = [verifier EXCEPT !.pc = "fetching",
                                    !.inFlight = Batch(verifier.nftMints, verifier.i)]

\* The callback of one mint without its try/catch: an exception of a fetch
\* rejects Promise.all and is caught by the outer catch, which returns [].
FetchDoneUncaught(mint, outcome) ==
    /\ verifier.pc = "fetching"
    /\ mint \in verifier.inFlight
    /\ outcome \in FetchOutcomes(verifier.variety)
    /\ LET matchedGroup == MatchedGroup(outcome.asset, verifier.validCollections, verifier.allowAny)
           isMatch == outcome.kind = "asset" /\ matchedGroup # NoTarget
           ok == outcome.kind = "asset" /\ (isMatch => outcome.jsonOk)
       IN verifier' =
            [verifier EXCEPT
               !.inFlight = @ \ {mint},
               !.fetched = Append(@, [mint |-> mint, ok |-> ok, matched |-> isMatch]),
               !.pc = IF ok THEN @ ELSE "done",
               !.result = IF ok THEN @ ELSE "caught",
               !.validNFTs = IF isMatch /\ outcome.jsonOk
                             THEN Append(@, [mint |-> mint,
                                             collectionGroup |-> matchedGroup,
                                             asset |-> outcome.asset])
                             ELSE @]

\* the callback of one mint of the batch runs to its end
FetchDone(mint, outcome) ==
    /\ verifier.pc = "fetching"
    /\ mint \in verifier.inFlight
    /\ outcome \in FetchOutcomes(verifier.variety)
    /\ LET matchedGroup == MatchedGroup(outcome.asset, verifier.validCollections, verifier.allowAny)
           isMatch == outcome.kind = "asset" /\ matchedGroup # NoTarget
       IN verifier' =
            [verifier EXCEPT
               !.inFlight = @ \ {mint},
               !.fetched = Append(@, [mint |-> mint,
                                      ok |-> outcome.kind = "asset" /\ (isMatch => outcome.jsonOk),
                                      matched |-> isMatch]),
               !.validNFTs = IF isMatch /\ outcome.jsonOk
                             THEN Append(@, [mint |-> mint,
                                             collectionGroup |-> matchedGroup,
                                             asset |-> outcome.asset])
                             ELSE @]

\* Promise.all has settled: the delay if another batch follows, i += BATCH_SIZE,
\* and the loop test; after the last batch validNFTs is returned
\* The end of a batch with the delay taken unconditionally, also after the
\* last batch.
BatchEndAlwaysSleeping ==
    /\ verifier.pc = "fetching"
    /\ verifier.inFlight = {}
    /\ LET more == verifier.i + BATCH_SIZE < Len(verifier.nftMints) IN
       verifier' = [verifier EXCEPT
                      !.slept = @ + 1,
                      !.i = @ + BATCH_SIZE,
                      !.pc = IF more THEN "batch" ELSE "done",
                      !.result = IF more THEN @ ELSE "returned"]

BatchEnd ==
    /\ verifier.pc = "fetching"
    /\ verifier.inFlight = {}
    /\ LET more == verifier.i + BATCH_SIZE < Len(verifier.nftMints) IN
       verifier' = [verifier EXCEPT
                      !.slept = IF more THEN @ + 1 ELSE @,
                      !.i = @ + BATCH_SIZE,
                      !.pc = IF more THEN "batch" ELSE "done",
                      !.result = IF more THEN @ ELSE "returned"]

NoNftsFromCollection == "No NFTs found in wallet from collection"
NoValidNft == "No valid NFT found in this wallet!"

\* validateAndGetPlayerData for type WALLET with a wallet and no selectedMint,
\* from the answer of verifyWalletAndGetNFTs on: collectionFilter is
\* options.requiredCollection || options.selectedCollectionGroup, pick the
\* index Math.random draws. It throws an Error, throws
\* MultipleCollectionsError(groups) or returns the Player of the picked NFT.
validateAndGetPlayerData(nfts, collectionFilter, enablePartners, pick) ==
    IF Len(nfts) = 0
    THEN [NoValidation EXCEPT
            !.kind = "error",
            !.msg = IF collectionFilter # NoTarget THEN NoNftsFromCollection ELSE NoValidNft]
    ELSE LET groups == { nfts[k].collectionGroup : k \in DOMAIN nfts } \ {"Unknown"} IN
         IF collectionFilter = NoTarget /\ enablePartners /\ Cardinality(groups) > 1
         THEN [NoValidation EXCEPT !.kind = "multiple", !.groups = groups]
         ELSE [NoValidation EXCEPT !.kind = "player", !.nft = nfts[pick]]

\* validateAndGetPlayerData after its await of verifyWalletAndGetNFTs
Validate(pick) ==
    /\ verifier.pc = "done"
    /\ LET nfts == IF verifier.result = "caught" THEN <<>> ELSE verifier.validNFTs IN
       /\ pick \in (DOMAIN nfts) \cup (IF nfts = <<>> THEN {1} ELSE {})
       /\ verifier' = [verifier EXCEPT
                         !.pc = "validated",
                         !.validation = validateAndGetPlayerData(
                                            nfts, verifier.targetCollectionGroup,
                                            verifier.enablePartners, pick)]

\* ----------------------------------------------------------- specifications
\* One tournament: any count up to MaxContestants with failures injected, or
\* a count /battle start admits, up to MaxLegalContestants, without.
InitBattle ==
    /\ \/ \E n \in MinPlayers..MaxContestants :
            battles = <<NewBattle("BATTLE_ROYALE", [i \in 1..n |-> i], MaxFaults)>>
       \/ \E n \in { m \in 1..MaxLegalContestants : LegalCount("BATTLE_ROYALE", m) } :
            battles = <<NewBattle("BATTLE_ROYALE", [i \in 1..n |-> i], 0)>>
    /\ lobbies = <<>>
    /\ activeLobbies = NoLobby
    /\ activeBattles = 1
    /\ pendingLobbySetup = [u \in Hosts |-> NoSetup]
    /\ calls = EmptyBag
    /\ rejection = NoReply
    /\ verifier = NoVerification

NextBattle ==
    \/ \E b \in DOMAIN battles : StartBattle(b) /\ UNCHANGED registry
    \/ \E b \in DOMAIN battles : StartBattleResume(b) /\ UNCHANGED registry
    \/ \E b \in DOMAIN battles : ProcessRound(b) /\ UNCHANGED registry

SpecBattle == InitBattle /\ [][NextBattle]_vars

\* The bot after start-up: no lobby, no tournament, nothing pending.
Init ==
    /\ battles = <<>>
    /\ lobbies = <<>>
    /\ activeLobbies = NoLobby
    /\ activeBattles = NoBattle
    /\ pendingLobbySetup = [u \in Hosts |-> NoSetup]
    /\ calls = EmptyBag
    /\ rejection = NoReply
    /\ verifier = NoVerification

\* The tournaments whose rounds the whole-system specification runs.
Arena == { b \in DOMAIN battles : Len(battles[b].order) <= MaxArena }

\* A command that is turned away changes nothing but its reply: the state
\* that carries the reply is not continued from, the state before it is.
Serving == rejection = NoReply

Next ==
    \/ \E u \in Hosts, type \in RegistrationTypes, mode \in GameModes :
          Serving /\ CreateWizard(u, type, mode) /\ UNCHANGED verifier
    \/ \E u \in Hosts : \E n \in Capacities(pendingLobbySetup[u].mode) :
          Serving /\ CreateFinal(u, n) /\ UNCHANGED verifier
    \/ \E c \in Suspended, host \in {"none", "host", "A", "B"}, err \in {"no", "before", "after"} :
          Serving /\ CreateCommit(c, host, err) /\ UNCHANGED verifier
    \/ \E u \in Users : Serving /\ JoinCheck(u) /\ UNCHANGED verifier
    \/ \E c \in Suspended, outcome \in {"ok", "invalid", "timeout"}, team \in {NoTeam, "A", "B"} :
          Serving /\ JoinValidate(c, outcome, team) /\ UNCHANGED verifier
    \/ \E c \in Suspended, editFails \in BOOLEAN : Serving /\ JoinPushed(c, editFails) /\ UNCHANGED verifier
    \/ \E c \in Suspended, followUpFails \in BOOLEAN : Serving /\ JoinFull(c, followUpFails) /\ UNCHANGED verifier
    \/ \E l \in DOMAIN lobbies : Serving /\ AutoStartTimer(l) /\ UNCHANGED verifier
    \/ \E c \in Suspended, fetched \in {"channel", "none", "throws"} :
          Serving /\ AutoStart(c, fetched) /\ UNCHANGED verifier
    \/ \E u \in Users, count \in 1..MaxBotCount : Serving /\ FillBots(u, count) /\ UNCHANGED verifier
    \/ \E u \in Users : Serving /\ Reset(u) /\ UNCHANGED verifier
    \/ \E u \in Users, replyFails \in BOOLEAN : Serving /\ Start(u, replyFails) /\ UNCHANGED verifier
    \/ \E c \in Suspended : Serving /\ StartCommit(c) /\ UNCHANGED verifier
    \/ \E b \in Arena : Serving /\ StartBattleResume(b) /\ UNCHANGED registry
    \/ \E b \in Arena : Serving /\ ProcessRound(b) /\ UNCHANGED registry

Spec == Init /\ [][Next]_vars

\* The channel after its first lobby is gone. Either the host started it by
\* hand with one bot beside them: the tournament awaits its opening message,
\* the Lobby object is IN_PROGRESS and nothing holds it. Or it became full by
\* a join, which armed the auto-start timer, and the host reset it: the map
\* is empty and the timer is still armed.
StartedLobby ==
    Unreachable([ hostId |-> 1, players |-> <<>>, maxPlayers |-> MinPlayers,
                  status |-> "IN_PROGRESS",
                  settings |-> [genre |-> "BATTLE_ROYALE", registrationType |-> "WALLET"],
                  autoStartTimer |-> FALSE ])
ResetFullLobby ==
    Unreachable([ hostId |-> 1, players |-> <<>>, maxPlayers |-> MinPlayers,
                  status |-> "OPEN",
                  settings |-> [genre |-> "BATTLE_ROYALE", registrationType |-> "WALLET"],
                  autoStartTimer |-> TRUE ])

InitAgain ==
    /\ \/ /\ lobbies = <<StartedLobby>>
          /\ battles = <<startBattle(NewBattle("BATTLE_ROYALE", <<1, BotId(2)>>, MaxSystemFaults))>>
          /\ activeBattles = 1
       \/ /\ lobbies = <<ResetFullLobby>>
          /\ battles = <<>>
          /\ activeBattles = NoBattle
    /\ activeLobbies = NoLobby
    /\ pendingLobbySetup = [u \in Hosts |-> NoSetup]
    /\ calls = EmptyBag
    /\ rejection = NoReply
    /\ verifier = NoVerification

\* The steps of the channel from there on when nobody joins: one more lobby
\* can be created, filled with bots, reset and started, the timer fires, and
\* the tournaments run.
NextAgain ==
    \/ \E u \in Hosts, type \in RegistrationTypes, mode \in GameModes :
          Serving /\ CreateWizard(u, type, mode) /\ UNCHANGED verifier
    \/ \E u \in Hosts : \E n \in Capacities(pendingLobbySetup[u].mode) :
          Serving /\ CreateFinal(u, n) /\ UNCHANGED verifier
    \/ \E c \in Suspended, host \in {"none", "host", "A", "B"}, err \in {"no", "before", "after"} :
          Serving /\ CreateCommitWithin(c, host, err, MaxLobbies + 1) /\ UNCHANGED verifier
    \/ \E l \in DOMAIN lobbies : Serving /\ AutoStartTimer(l) /\ UNCHANGED verifier
    \/ \E c \in Suspended, fetched \in {"channel", "none", "throws"} :
          Serving /\ AutoStart(c, fetched) /\ UNCHANGED verifier
    \/ \E u \in Users, count \in 1..MaxBotCount : Serving /\ FillBots(u, count) /\ UNCHANGED verifier
    \/ \E u \in Users : Serving /\ Reset(u) /\ UNCHANGED verifier
    \/ \E u \in Users, replyFails \in BOOLEAN : Serving /\ Start(u, replyFails) /\ UNCHANGED verifier
    \/ \E c \in Suspended : Serving /\ StartCommit(c) /\ UNCHANGED verifier
    \/ \E b \in Arena : Serving /\ StartBattleResume(b) /\ UNCHANGED registry
    \/ \E b \in Arena : Serving /\ ProcessRound(b) /\ UNCHANGED registry

SpecAgain == InitAgain /\ [][NextAgain]_vars

\* One call of verifyWalletAndGetNFTs for every configuration, requested
\* collection and answer of the lookup index, the chain and the metadata host.
ServerCollections == {NoConfig, <<"KeyA">>, <<"gainz">>, <<" ">>, <<"KeyA", "KeyZ">>}
PartnerCollections == {NoConfig, <<"gainz">>}
Targets == {NoTarget, "gainz"}

InitVerifier ==
    /\ battles = <<>>
    /\ lobbies = <<>>
    /\ activeLobbies = NoLobby
    /\ activeBattles = NoBattle
    /\ pendingLobbySetup = [u \in Hosts |-> NoSetup]
    /\ calls = EmptyBag
    /\ rejection = NoReply
    /\ \E serverCollection \in ServerCollections, partnerCollections \in PartnerCollections,
          enablePartners \in BOOLEAN, targetCollectionGroup \in Targets :
          verifier = Verification(serverCollection, partnerCollections,
                                  enablePartners, targetCollectionGroup)

world == <<battles, lobbies, activeLobbies, activeBattles, pendingLobbySetup, calls, rejection>>

NextVerifier ==
    \/ \E answer \in SlugAnswers : ProcessConfigItem(answer) /\ UNCHANGED world
    \/ \E answer \in WalletAnswers : TokenAccounts(answer) /\ UNCHANGED world
    \/ BatchStart /\ UNCHANGED world
    \/ \E mint \in verifier.inFlight, outcome \in FetchOutcomes(TRUE) :
          FetchDone(mint, outcome) /\ UNCHANGED world
    \/ BatchEnd /\ UNCHANGED world
    \/ \E pick \in 1..MaxHoldings : Validate(pick) /\ UNCHANGED world

SpecVerifier == InitVerifier /\ [][NextVerifier]_vars

\* ------------------------------------------------- properties of a tournament
StatusCount(bt, status) ==
    Cardinality({ p \in DOMAIN bt.players : bt.players[p].status = status })

\* The contestants the bracket generated last left out of its pairings.
Bye(bt) ==
    IF bt.brackets = <<>> THEN {} ELSE bt.brackets[Len(bt.brackets)].left

\* C1: for every legal contestant count N, a tournament started with N
\* contestants that reaches COMPLETED has exactly one contestant with status
\* WINNER and exactly N-1 with status ELIMINATED.
C1_OneWinnerOthersEliminated ==
    \A b \in DOMAIN battles :
        LET bt == battles[b] IN
        (bt.status = "COMPLETED" /\ LegalCount(bt.settings.genre, bt.contestants)) =>
            /\ StatusCount(bt, "WINNER") = 1
            /\ StatusCount(bt, "ELIMINATED") = bt.contestants - 1

\* C2: after processRound has handled a pairing (p1, p2), recorded on the
\* normal path or skipped on the catch path, exactly one of p1 and p2 is
\* ELIMINATED and the other is still ALIVE.
C2_OneLoserPerMatch ==
    \A b \in DOMAIN battles :
        LET bt == battles[b] IN
        bt.last.path \in {"recorded", "skipped"} =>
            { bt.players[bt.last.p1].status, bt.players[bt.last.p2].status }
                = {"ALIVE", "ELIMINATED"}

\* C4: whatever external calls fail while matches are processed, a
\* tournament is never IN_PROGRESS with nothing scheduled: once its first
\* bracket is generated, while it is IN_PROGRESS a processRound invocation
\* is pending.
C4_NeverStalled ==
    \A b \in DOMAIN battles :
        (battles[b].status = "IN_PROGRESS" /\ battles[b].brackets # <<>>) =>
            battles[b].pending > 0

\* C5: no exception leaves processRound while it handles a pairing: each
\* pairing taken from the queue ends recorded or skipped.
C5_MatchNeverThrows ==
    \A b \in DOMAIN battles : battles[b].last.path # "threw"

\* C8: a bracket generated from an odd number of ALIVE contestants leaves
\* exactly one of them out of its pairings, and until the next bracket that
\* contestant stays ALIVE and no step changes its status or roundWins.
C8_ByeCarriedUnchanged ==
    /\ [](\A b \in DOMAIN battles :
            /\ \A i \in DOMAIN battles[b].brackets :
                  battles[b].brackets[i].alive % 2 = 1 =>
                      Cardinality(battles[b].brackets[i].left) = 1
            /\ \A p \in Bye(battles[b]) : battles[b].players[p].status = "ALIVE")
    /\ [][\A b \in DOMAIN battles :
            b \in DOMAIN battles' =>
                \A p \in Bye(battles'[b]) : battles'[b].players[p] = battles[b].players[p]]_vars

C8_ByeCarried ==
    \E b \in DOMAIN battles :
        /\ Len(battles[b].brackets) >= 2
        /\ battles[b].brackets[1].alive = 3
        /\ Cardinality(battles[b].brackets[1].left) = 1
        /\ battles[b].status = "COMPLETED"

\* C9: generateBracket on k ALIVE contestants yields k \div 2 pairings, no
\* contestant in two of them and none with p1 = p2; a tournament that
\* completes without a failure has N-1 history entries, and with 4
\* contestants it ran a bracket of 2 pairings and then a bracket of 1.
C9_BracketShape ==
    \A b \in DOMAIN battles :
        LET bt == battles[b] IN
        /\ \A i \in DOMAIN bt.brackets :
              /\ bt.brackets[i].pairings = bt.brackets[i].alive \div 2
              /\ bt.brackets[i].disjoint
        /\ \A i \in DOMAIN bt.matchQueue : bt.matchQueue[i].p1 # bt.matchQueue[i].p2
        /\ (bt.status = "COMPLETED" /\ bt.faults = 0) =>
              /\ Len(bt.history) = bt.contestants - 1
              /\ bt.contestants = 4 =>
                    /\ Len(bt.brackets) = 2
                    /\ bt.brackets[1].pairings = 2
                    /\ bt.brackets[2].pairings = 1

C9_FourContestantsCompleted ==
    \E b \in DOMAIN battles :
        /\ battles[b].contestants = 4
        /\ battles[b].status = "COMPLETED"
        /\ battles[b].faults = 0
        /\ Len(battles[b].history) = 3

\* C10: every contestant of a pairing in the pending match queue is ALIVE,
\* and the two contestants of a pairing were ALIVE when processRound took it
\* from the queue.
C10_QueuedAreAlive ==
    /\ [](\A b \in DOMAIN battles :
            \A i \in DOMAIN battles[b].matchQueue :
                /\ battles[b].players[battles[b].matchQueue[i].p1].status = "ALIVE"
                /\ battles[b].players[battles[b].matchQueue[i].p2].status = "ALIVE")
    /\ [][\A b \in DOMAIN battles :
            (b \in DOMAIN battles' /\ battles'[b].last # battles[b].last) =>
                /\ battles[b].players[battles'[b].last.p1].status = "ALIVE"
                /\ battles[b].players[battles'[b].last.p2].status = "ALIVE"]_vars

C10_QueuedAfterElimination ==
    \E b \in DOMAIN battles :
        /\ battles[b].matchQueue # <<>>
        /\ StatusCount(battles[b], "ELIMINATED") > 0
        /\ battles[b].last.path = "recorded"

\* C11: the match history of a tournament is append-only and ordered: every
\* step keeps the entries already recorded, in place and unchanged, adds new
\* ones only at the end, and the roundNumber values never decrease along the
\* history.
C11_HistoryAppendOnly ==
    /\ [](\A b \in DOMAIN battles :
            \A i, j \in DOMAIN battles[b].history :
                i <= j => battles[b].history[i].roundNumber <= battles[b].history[j].roundNumber)
    /\ [][\A b \in DOMAIN battles :
            /\ b \in DOMAIN battles'
            /\ Len(battles'[b].history) >= Len(battles[b].history)
            /\ SubSeq(battles'[b].history, 1, Len(battles[b].history)) = battles[b].history]_vars

C11_ThreeMatchesRecorded ==
    \E b \in DOMAIN battles :
        /\ Len(battles[b].history) = 3
        /\ battles[b].history[1].roundNumber < battles[b].history[3].roundNumber
        /\ battles[b].status = "COMPLETED"

\* C12: the status of a tournament only moves WAITING -> IN_PROGRESS ->
\* COMPLETED; a COMPLETED tournament has nothing scheduled (no processRound
\* invocation, no startBattle awaiting its message) and an empty queue, and
\* no step changes its status, contestants, round counter, queue or history.
C12_ForwardThenInert ==
    /\ [](\A b \in DOMAIN battles :
            battles[b].status = "COMPLETED" =>
                /\ battles[b].pending = 0
                /\ ~battles[b].opening
                /\ battles[b].matchQueue = <<>>)
    /\ [][\A b \in DOMAIN battles :
            /\ b \in DOMAIN battles'
            /\ battles'[b].status # battles[b].status =>
                  <<battles[b].status, battles'[b].status>>
                      \in {<<"WAITING", "IN_PROGRESS">>, <<"IN_PROGRESS", "COMPLETED">>}
            /\ battles[b].status = "COMPLETED" =>
                  /\ battles'[b].status = "COMPLETED"
                  /\ battles'[b].players = battles[b].players
                  /\ battles'[b].round = battles[b].round
                  /\ battles'[b].matchQueue = battles[b].matchQueue
                  /\ battles'[b].history = battles[b].history
                  /\ battles'[b].last = battles[b].last]_vars

C12_CompletedAfterFailure ==
    \E b \in DOMAIN battles :
        /\ battles[b].status = "COMPLETED"
        /\ battles[b].faults > 0
        /\ battles[b].history # <<>>

\* C13: the matches of a tournament run one after the other: at most one
\* processRound invocation is scheduled or running at any time, one is only
\* scheduled after a match that ended recorded or skipped, and a bracket is
\* generated only while the match queue is empty.
C13_OneMatchAtATime ==
    /\ [](\A b \in DOMAIN battles :
            /\ battles[b].pending <= 1
            /\ battles[b].pending > 0 => battles[b].last.path # "threw")
    /\ [][\A b \in DOMAIN battles :
            (b \in DOMAIN battles' /\ battles'[b].brackets # battles[b].brackets) =>
                battles[b].matchQueue = <<>>]_vars

C13_SecondBracketAfterSkip ==
    \E b \in DOMAIN battles :
        /\ Len(battles[b].brackets) >= 2
        /\ battles[b].faults > 0
        /\ battles[b].pending = 1
        /\ battles[b].last.path = "recorded"

\* --------------------------------------------------- properties of the lobby
\* C3: in every reachable state a lobby's contestant list is no longer than
\* its capacity, also when joins overlap.
C3_WithinCapacity ==
    \A l \in DOMAIN lobbies : Len(lobbies[l].players) <= lobbies[l].maxPlayers

\* C6: every tournament was started, by /battle start or by the auto-start
\* timer, from a lobby list whose length is at least 2 and is even and within
\* 2..24 in non-team mode, or one of 4, 8, 16 in team mode.
C6_StartedFromLegalLobby ==
    \A b \in DOMAIN battles :
        LegalCount(battles[b].settings.genre, battles[b].contestants)

\* The channel's lobby is a team-mode lobby whose contestant count is none of
\* 4, 8, 16.
OffBracket ==
    /\ activeLobbies # NoLobby
    /\ lobbies[activeLobbies].settings.genre = "GANG_MODE"
    /\ Len(lobbies[activeLobbies].players) \notin validGangCounts

\* What /battle start answers user u while the channel's lobby is off its
\* bracket: the validation message for the host, the host check for others.
StartAnswers(u) ==
    IF u = lobbies[activeLobbies].hostId THEN {NeedTwoPlayers, GangRequires} ELSE {OnlyHostStart}

C14_CreateKeepsExistingLobby ==
    [][(/\ activeLobbies # NoLobby
        /\ \E c \in BagToSet(calls) :
              c.kind = "create" /\ CopiesIn(c, calls') < CopiesIn(c, calls))
          => /\ activeLobbies' = activeLobbies
             /\ lobbies'[activeLobbies] = lobbies[activeLobbies]]_vars

\* C15: no id appears twice in a lobby's contestant list, also when the same
\* user's joins overlap and for the host registered at creation.
C15_NoDuplicateContestant ==
    \A l \in DOMAIN lobbies :
        \A i, j \in DOMAIN lobbies[l].players :
            i # j => lobbies[l].players[i].id # lobbies[l].players[j].id

\* A step of /battle reset: it answers with a rejection, or it removes the
\* channel's lobby without resuming any suspended handler.
ResetStep ==
    \/ rejection' # rejection /\ rejection'.cmd = "reset"
    \/ activeLobbies # NoLobby /\ activeLobbies' = NoLobby /\ calls' = calls

Configured ==
    \E k \in DOMAIN verifier.configured : Trim(verifier.configured[k]) # ""

\* The verification has returned normally (not through the outer catch).
Returned == verifier.pc = "done" /\ verifier.result = "returned"

\* The fetches of the holding with this mint ended in an exception.
FetchFailed(mint) ==
    \E k \in DOMAIN verifier.fetched :
        verifier.fetched[k].mint = mint /\ ~verifier.fetched[k].ok

\* The entries of the result for a mint.
Entries(mint) ==
    { k \in DOMAIN verifier.validNFTs : verifier.validNFTs[k].mint = mint }

\* The asset has a verified collection link or a verified creator in ids.
Linked(asset, ids) ==
    \/ asset.collection # NoCollection /\ asset.collection.verified /\ asset.collection.key \in ids
    \/ \E k \in DOMAIN asset.creators :
          asset.creators[k].verified /\ asset.creators[k].address \in ids

\* C17: with no collection constraint configured and no collection
\* requested, a verification that returns applies the allow-any policy: its
\* result holds, once, every holding of amount 1 and 0 decimals whose
\* metadata could be fetched, and no holding that is not of amount 1 and 0
\* decimals.
C17_AllowAnyReturnsSingleUnits ==
    (Returned /\ ~Configured /\ verifier.targetCollectionGroup = NoTarget) =>
        /\ verifier.allowAny
        /\ \A mint \in DOMAIN verifier.tokenAccounts :
              ( /\ verifier.tokenAccounts[mint].amount = 1
                /\ verifier.tokenAccounts[mint].decimals = 0
                /\ ~FetchFailed(mint) ) => Cardinality(Entries(mint)) = 1
        /\ \A k \in DOMAIN verifier.validNFTs :
              /\ verifier.tokenAccounts[verifier.validNFTs[k].mint].amount = 1
              /\ verifier.tokenAccounts[verifier.validNFTs[k].mint].decimals = 0
              /\ verifier.validNFTs[k].collectionGroup = "Any"

C17_AnyAssetOfMixedWallet ==
    /\ Returned /\ ~Configured /\ verifier.targetCollectionGroup = NoTarget
    /\ verifier.tokenAccounts = <<Fraction, Nft>>
    /\ Len(verifier.validNFTs) = 1
    /\ verifier.validNFTs[1].asset = StrangerAsset

\* C18: whenever a collection constraint is configured, every returned asset
\* has a verified collection link or a verified creator among the identifiers
\* the configured constraints stand for, whatever the resolution of the
\* configured slugs yielded.
C18_OnlyLinkedAssets ==
    Configured =>
        \A k \in DOMAIN verifier.validNFTs :
            Linked(verifier.validNFTs[k].asset, DOMAIN verifier.validCollections)

\* C19: two resolutions of the same alias under the same configuration
\* return the same identifiers, whatever the lookup index answers.
C19_SameAliasSameIds ==
    \A j, k \in DOMAIN verifier.resolutions :
        verifier.resolutions[j].slug = verifier.resolutions[k].slug =>
            verifier.resolutions[j].ids = verifier.resolutions[k].ids

\* C20: the batch loop fetches the metadata of single-unit holdings only and
\* of none twice; when the verification returns, every single-unit holding
\* was fetched exactly once, whatever the number of holdings, and if no
\* fetch failed under the allow-any policy the result holds them all.
C20_EveryHoldingCheckedOnce ==
    /\ \A j, k \in DOMAIN verifier.fetched :
          j # k => verifier.fetched[j].mint # verifier.fetched[k].mint
    /\ \A k \in DOMAIN verifier.fetched :
          /\ verifier.fetched[k].mint \in DOMAIN verifier.tokenAccounts
          /\ verifier.tokenAccounts[verifier.fetched[k].mint].amount = 1
          /\ verifier.tokenAccounts[verifier.fetched[k].mint].decimals = 0
    /\ Returned =>
          /\ \A mint \in DOMAIN verifier.tokenAccounts :
                (verifier.tokenAccounts[mint].amount = 1
                    /\ verifier.tokenAccounts[mint].decimals = 0) =>
                   Cardinality({ k \in DOMAIN verifier.fetched :
                                    verifier.fetched[k].mint = mint }) = 1
          /\ (verifier.allowAny /\ \A mint \in DOMAIN verifier.tokenAccounts : ~FetchFailed(mint)) =>
                Len(verifier.validNFTs) =
                    Cardinality({ mint \in DOMAIN verifier.tokenAccounts :
                                     verifier.tokenAccounts[mint].amount = 1
                                        /\ verifier.tokenAccounts[mint].decimals = 0 })

C20_SevenHoldingsThreeBatches ==
    /\ Returned
    /\ Len(verifier.nftMints) = 2 * BATCH_SIZE + 1
    /\ Len(verifier.validNFTs) = 2 * BATCH_SIZE + 1
    /\ verifier.slept = 2

\* C21: a holding whose metadata fetch fails is the only one left out: the
\* failure never ends the call through the outer catch, a failed holding adds
\* no entry and leaves the entries of the others as they are, and when the
\* call returns its result holds, once, exactly the holdings that matched and
\* whose fetches succeeded (none at all if none is eligible).
C21_FailedHoldingOnlyExcluded ==
    /\ [](verifier.result = "caught" => verifier.fetched = <<>>)
    /\ [](Returned =>
            /\ \A k \in DOMAIN verifier.fetched :
                  Cardinality(Entries(verifier.fetched[k].mint)) =
                      (IF verifier.fetched[k].ok /\ verifier.fetched[k].matched THEN 1 ELSE 0)
            /\ \A k \in DOMAIN verifier.validNFTs :
                  \E j \in DOMAIN verifier.fetched :
                      verifier.fetched[j].mint = verifier.validNFTs[k].mint)
    /\ [][(Len(verifier'.fetched) > Len(verifier.fetched)
              /\ ~verifier'.fetched[Len(verifier'.fetched)].ok)
            => verifier'.validNFTs = verifier.validNFTs /\ verifier'.pc = "fetching"]_vars

C21_OneFailedOneReturned ==
    /\ Returned
    /\ Len(verifier.fetched) = 2
    /\ \E k \in DOMAIN verifier.fetched : ~verifier.fetched[k].ok
    /\ Len(verifier.validNFTs) = 1
    /\ ~FetchFailed(verifier.validNFTs[1].mint)

\* ------------------------------------------ failures within a tournament
\* The inputs of a processRound invocation in which exactly the given
\* external calls fail.
MatchInputs(bt, faults) ==
    [ js : IF Len(bt.matchQueue) = 0
           THEN ShuffleChoices(Len(AlivePlayers(bt))) ELSE {<<>>},
      coin : BOOLEAN,
      faults : {faults} ]

\* The invocation took a pairing from the queue (it did not end the
\* tournament) and recorded it: one new history entry, whose winner and loser
\* are the two contestants of the pairing, the winner chosen by the coin, the
\* loser ELIMINATED, the winner ALIVE, and the next invocation scheduled.
Recorded(bt, nb, in) ==
    /\ nb.last.path = "recorded"
    /\ Len(nb.history) = Len(bt.history) + 1
    /\ SubSeq(nb.history, 1, Len(bt.history)) = bt.history
    /\ LET entry == nb.history[Len(nb.history)] IN
          /\ entry.winnerId = (IF in.coin THEN nb.last.p1 ELSE nb.last.p2)
          /\ entry.loserId = (IF in.coin THEN nb.last.p2 ELSE nb.last.p1)
          /\ entry.winnerId # entry.loserId
          /\ nb.players[entry.winnerId].status = "ALIVE"
          /\ nb.players[entry.loserId].status = "ELIMINATED"
    /\ nb.status = "IN_PROGRESS"
    /\ nb.pending = 1
    /\ ~nb.threw

\* C22: a match whose narrative generation fails (the call throws or answers
\* without text) while everything else succeeds is recorded with a non-empty
\* placeholder narrative, the generated image and a determined winner and
\* loser, and the next invocation is scheduled.
C22_NarrativeFailureStillRecorded ==
    \A b \in DOMAIN battles :
        LET bt == battles[b] IN
        (bt.status = "IN_PROGRESS" /\ bt.pending > 0) =>
            \A faults \in {{"narrativeFails"}, {"narrativeEmpty"}} :
                \A in \in MatchInputs(bt, faults) :
                    LET nb == processRound(bt, in) IN
                    nb.status = "IN_PROGRESS" =>
                        /\ Recorded(bt, nb, in)
                        /\ nb.history[Len(nb.history)].narrative \in {NarrativeDefault, NarrativeEmpty}
                        /\ nb.history[Len(nb.history)].narrative # ""
                        /\ nb.history[Len(nb.history)].imageUrl = ImageData

C22_PlaceholderThenNextMatch ==
    \E b \in DOMAIN battles :
        /\ Len(battles[b].history) >= 2
        /\ battles[b].history[1].narrative = NarrativeDefault
        /\ battles[b].history[1].imageUrl = ImageData
        /\ battles[b].history[2].narrative = NarrativeGenerated

\* C28: a match whose head-to-head image generation fails or yields no image
\* goes on: narrative and action image are generated, the winner is the one
\* the coin decides, and the match is recorded with an empty headToHeadUrl.
C28_MissingHeadToHeadStillRecorded ==
    \A b \in DOMAIN battles :
        LET bt == battles[b] IN
        (bt.status = "IN_PROGRESS" /\ bt.pending > 0) =>
            \A in \in MatchInputs(bt, {"h2hFails"}) :
                LET nb == processRound(bt, in) IN
                nb.status = "IN_PROGRESS" =>
                    /\ Recorded(bt, nb, in)
                    /\ nb.history[Len(nb.history)].headToHeadUrl = NoImage
                    /\ nb.history[Len(nb.history)].narrative = NarrativeGenerated
                    /\ nb.history[Len(nb.history)].imageUrl = ImageData

C28_RecordedWithoutHeadToHead ==
    \E b \in DOMAIN battles :
        /\ battles[b].history # <<>>
        /\ battles[b].history[1].headToHeadUrl = NoImage
        /\ battles[b].history[1].imageUrl = ImageData
        /\ battles[b].last.path = "recorded"

\* C23: when there is a winner the finale completes: the tournament is
\* COMPLETED and, once the champion is announced, the document is compiled
\* whichever call of the victory package fails.
C23_FinaleCompilesDocument ==
    \A b \in DOMAIN battles :
        (battles[b].status = "COMPLETED" /\ battles[b].report = "champion") =>
            battles[b].finale = "package"

\* C24: an invocation that finds the queue empty and no contestant ALIVE
\* completes the tournament, schedules nothing and, unless the post itself is
\* rejected, reports "no winner".
C24_NoSurvivorTerminates ==
    \A b \in DOMAIN battles :
        LET bt == battles[b] IN
        /\ (bt.status = "COMPLETED" /\ StatusCount(bt, "ALIVE") = 0) =>
              /\ bt.pending = 0
              /\ ~bt.threw => bt.report = "no winner"
        /\ (bt.pending > 0 /\ bt.matchQueue = <<>> /\ StatusCount(bt, "ALIVE") = 0) =>
              \A in \in MatchInputs(bt, {}) :
                  LET nb == processRound(bt, in) IN
                  /\ nb.status = "COMPLETED"
                  /\ nb.report = "no winner"
                  /\ nb.pending = 0
                  /\ nb.players = bt.players /\ nb.history = bt.history

C24_EndedWithoutWinner ==
    \E b \in DOMAIN battles :
        /\ battles[b].status = "COMPLETED"
        /\ StatusCount(battles[b], "ALIVE") = 0
        /\ battles[b].report = "no winner"
        /\ battles[b].pending = 0

\* ------------------------------------------------ registration outcomes
\* the collection groups among the holdings the verifier returned
ReturnedGroups ==
    { verifier.validNFTs[k].collectionGroup : k \in DOMAIN verifier.validNFTs }

\* C25: a WALLET registration without a collection choice whose holder owns
\* eligible assets under more than one configured collection ends in
\* MultipleCollectionsError (and so returns no contestant).
C25_AmbiguityIsSignalled ==
    (/\ verifier.pc = "validated"
     /\ verifier.targetCollectionGroup = NoTarget
     /\ verifier.result = "returned"
     /\ ~verifier.allowAny
     /\ Cardinality(ReturnedGroups) > 1)
        => verifier.validation.kind = "multiple"

\* C26: no join ends because a choice was not made in time (a default is
\* applied and the handler goes on).
C26_NoJoinEndsOnTimeout ==
    ~(rejection.cmd = "join" /\ rejection.msg = SelectionTimedOut)

\* C27: no COMPLETED tournament is registered in activeBattles.
C27_CompletedIsUnregistered ==
    activeBattles # NoBattle => battles[activeBattles].status # "COMPLETED"

\* C29: every contestant of a team-mode lobby carries team A or team B.
C29_EveryGangContestantHasTeam ==
    \A l \in DOMAIN lobbies :
        lobbies[l].settings.genre = "GANG_MODE" =>
            \A k \in DOMAIN lobbies[l].players : lobbies[l].players[k].team \in {"A", "B"}

\* The Lobby object l is still held after the step: by the channel map or by
\* a suspended handler.
HeldNext(l) ==
    l = activeLobbies' \/ \E c \in BagToSet(calls') : c.lobby = l

\* C30: in every step, the contestant list of an OPEN lobby that is still
\* held keeps its entries in place and at most grows at the end; a join that
\* is turned away (full, duplicate, no open lobby, timed-out choice) leaves
\* every held list as it was.
C30_ContestantsOnlyAppended ==
    [][/\ \A l \in DOMAIN lobbies :
             (lobbies[l].status = "OPEN" /\ HeldNext(l)) =>
                 /\ Len(lobbies'[l].players) >= Len(lobbies[l].players)
                 /\ SubSeq(lobbies'[l].players, 1, Len(lobbies[l].players))
                        = lobbies[l].players
       /\ (rejection' # rejection /\ rejection'.cmd = "join") =>
             \A l \in DOMAIN lobbies :
                 HeldNext(l) => lobbies'[l].players = lobbies[l].players]_vars

C30_FullLobbyTurnsJoinAway ==
    /\ activeLobbies # NoLobby
    /\ lobbies[activeLobbies].status = "OPEN"
    /\ Len(lobbies[activeLobbies].players) = lobbies[activeLobbies].maxPlayers
    /\ \E k \in DOMAIN lobbies[activeLobbies].players :
          lobbies[activeLobbies].players[k].id < 0
    /\ rejection.cmd = "join"
    /\ rejection.msg = LobbyFull

\* ------------------------------------------------ contestants and rounds
\* C31: once a tournament has started its contestants are fixed; a step
\* changes status or roundWins only of a contestant of the pairing it
\* handles, and an ELIMINATED contestant stays ELIMINATED.
C31_ContestantsFixedAfterStart ==
    [][\A b \in DOMAIN battles :
          battles[b].status # "WAITING" =>
              /\ battles'[b].order = battles[b].order
              /\ DOMAIN battles'[b].players = DOMAIN battles[b].players
              /\ \A p \in DOMAIN battles[b].players :
                    /\ battles'[b].players[p] # battles[b].players[p] =>
                          /\ p \in {battles'[b].last.p1, battles'[b].last.p2}
                          /\ battles'[b].last.path # "none"
                    /\ battles[b].players[p].status = "ELIMINATED" =>
                          battles'[b].players[p].status = "ELIMINATED"]_vars

C31_ThirdContestantUntouched ==
    \E b \in DOMAIN battles :
        /\ Len(battles[b].order) = 3
        /\ Len(battles[b].history) = 1
        /\ battles[b].last.path = "skipped"
        /\ StatusCount(battles[b], "ELIMINATED") = 2

\* C37: while a tournament is IN_PROGRESS, round = number of history entries
\* + 1 and the i-th entry has roundNumber i; a skipped match changes neither.
C37_RoundCountsRecordedMatches ==
    /\ [](\A b \in DOMAIN battles :
             battles[b].status = "IN_PROGRESS" =>
                 /\ battles[b].round = Len(battles[b].history) + 1
                 /\ \A k \in DOMAIN battles[b].history :
                       battles[b].history[k].roundNumber = k)
    /\ [][\A b \in DOMAIN battles :
             (battles'[b].last # battles[b].last /\ battles'[b].last.path # "recorded") =>
                 /\ battles'[b].round = battles[b].round
                 /\ battles'[b].history = battles[b].history]_vars

C37_SkippedAfterRecorded ==
    \E b \in DOMAIN battles :
        /\ battles[b].status = "IN_PROGRESS"
        /\ battles[b].last.path = "skipped"
        /\ Len(battles[b].history) = 1
        /\ battles[b].round = 2
        /\ Len(battles[b].brackets) = 2

RECURSIVE SumWins(_, _)
\* the roundWins of the contestants ids of tournament bt, added up
SumWins(bt, ids) ==
    IF ids = <<>> THEN 0 ELSE bt.players[Head(ids)].roundWins + SumWins(bt, Tail(ids))

\* C38: at every point the roundWins of all contestants add up to the number
\* of recorded matches.
C38_WinsEqualRecordedMatches ==
    \A b \in DOMAIN battles :
        SumWins(battles[b], battles[b].order) = Len(battles[b].history)

Requested ==
    { k \in DOMAIN verifier.configured :
         verifier.configured[k] = verifier.targetCollectionGroup }

\* C40: with a collection requested the allow-any policy is never applied;
\* the call returns nothing when no configured label is the requested one or
\* when no identifier was resolved for it, and what it returns carries the
\* requested group only.
C40_RequestedCollectionOnly ==
    verifier.targetCollectionGroup # NoTarget =>
        /\ ~verifier.allowAny
        /\ \A id \in DOMAIN verifier.validCollections :
              verifier.validCollections[id] = verifier.targetCollectionGroup
        /\ (Requested = {} \/ DOMAIN verifier.validCollections = {}) =>
              verifier.validNFTs = <<>>
        /\ (verifier.pc # "config" /\ Requested = {}) => DOMAIN verifier.validCollections = {}
        /\ \A k \in DOMAIN verifier.validNFTs :
              verifier.validNFTs[k].collectionGroup = verifier.targetCollectionGroup

C40_RequestedGroupReturned ==
    /\ Returned
    /\ verifier.targetCollectionGroup = "gainz"
    /\ Len(verifier.configured) = 2
    /\ Len(verifier.validNFTs) = 2
    /\ \A k \in DOMAIN verifier.validNFTs : verifier.validNFTs[k].collectionGroup = "gainz"

C34_OneTournamentPerLobby ==
    [][Len(battles') > Len(battles) =>
          \E l \in DOMAIN lobbies :
              lobbies[l].status = "OPEN" /\ lobbies'[l].status = "IN_PROGRESS"]_vars

\* C36: a join appends its contestant only to a lobby that is OPEN and is
\* the channel's lobby at that moment.
C36_JoinedOnlyOpenRegisteredLobby ==
    [][\A l \in DOMAIN lobbies :
          Len(lobbies'[l].players) > Len(lobbies[l].players) =>
              lobbies[l].status = "OPEN" /\ activeLobbies = l]_vars

\* ------------------------------------------------------ the next lobby
\* C33: the channel's entry in activeBattles is never replaced while the
\* tournament it holds is IN_PROGRESS.
C33_RunningTournamentNotOverwritten ==
    [][activeBattles' # activeBattles =>
          (activeBattles = NoBattle \/ battles[activeBattles].status # "IN_PROGRESS")]_vars

\* C35: the auto-start callback starts only a lobby that became full (the
\* lobby whose join armed the timer).
C35_TimerStartsOnlyItsLobby ==
    [][\A c \in Suspended :
          (c.kind = "autostart" /\ Len(battles') > Len(battles)
              /\ CopiesIn(c, calls') < CopiesIn(c, calls)) =>
             Len(lobbies[c.lobby].players) = lobbies[c.lobby].maxPlayers]_vars

====
